---- MODULE Spec2Model ----
(***************************************************************************)
(* Model of the Codespace proxy server.  Three builds of the server are    *)
(* modelled; the variable `variant' says which one is running:             *)
(*   "fallback" : src/server.js          (mutable ADMIN_TOKEN with a       *)
(*                                         file-editable fallback token)   *)
(*   "degraded" : src/unnamed/part_001   (constant ADMIN_TOKEN taken from  *)
(*                                         the environment, or null)       *)
(*   "setup"    : the build the README src/unnamed/part_000 describes: the *)
(*                degraded build with POST /api/setup, which stores a      *)
(*                token in .env and activates it while none is set.  Its   *)
(*                code is not in the repository's sources; the route is    *)
(*                modelled from the README and the specification.          *)
(* JavaScript values are records tagged with their type; JavaScript        *)
(* strings are TLA+ strings.                                               *)
(***************************************************************************)
EXTENDS Integers, Sequences, FiniteSets, TLC

(***************************************************************************)
(* JavaScript values                                                       *)
(***************************************************************************)
Undefined == [t |-> "undefined"]

Null == [t |-> "null"]

Str(s) == [t |-> "string", s |-> s]

Num(n) == [t |-> "number", n |-> n]

\* an array of strings
Arr(elems) == [t |-> "array", elems |-> elems]

\* ToBoolean: what `!v', `!!v', `v || w' and `Boolean(v)' test
Truthy(v) ==
  CASE v.t = "undefined" -> FALSE
    [] v.t = "null"      -> FALSE
    [] v.t = "string"    -> v.s # ""
    [] v.t = "number"    -> v.n # 0
    [] OTHER             -> TRUE

\* a || b
Or(a, b) == IF Truthy(a) THEN a ELSE b

\* typeof v
TypeOf(v) ==
  CASE v.t = "undefined" -> "undefined"
    [] v.t = "null"      -> "object"
    [] v.t = "array"     -> "object"
    [] OTHER             -> v.t

RECURSIVE Join(_)
\* Array.prototype.join(',') of an array of strings
Join(elems) ==
  IF elems = <<>> THEN ""
  ELSE IF Len(elems) = 1 THEN elems[1]
  ELSE elems[1] \o "," \o Join(Tail(elems))

\* String(v), the conversion `new URL(v)' applies to its argument
StringOf(v) ==
  CASE v.t = "string"    -> v.s
    [] v.t = "array"     -> Join(v.elems)
    [] v.t = "undefined" -> "undefined"
    [] v.t = "null"      -> "null"
    [] OTHER             -> "0"

\* v.length
LengthOf(v) ==
  CASE v.t = "string" -> Len(v.s)
    [] v.t = "array"  -> Len(v.elems)
    [] OTHER          -> -1

(***************************************************************************)
(* String helpers                                                          *)
(***************************************************************************)
CharAt(s, i) == SubSeq(s, i, i)

\* s.slice(n)
Slice(s, n) == SubSeq(s, n + 1, Len(s))

\* s.startsWith(p)
StartsWith(s, p) == Len(s) >= Len(p) /\ SubSeq(s, 1, Len(p)) = p

EndsWith(s, p) == Len(s) >= Len(p) /\ SubSeq(s, Len(s) - Len(p) + 1, Len(s)) = p

UpperChars == "ABCDEFGHIJKLMNOPQRSTUVWXYZ"

LowerChars == "abcdefghijklmnopqrstuvwxyz"

DigitChars == "0123456789"

\* the set of the characters of s
CharsOf(s) == { SubSeq(s, i, i) : i \in 1..Len(s) }

Upper == CharsOf(UpperChars)

Letters == CharsOf(LowerChars)

Digits == CharsOf(DigitChars)

RECURSIVE IndexIn(_, _, _)
\* position of the one-character string c in s at or after i, 0 if none
IndexIn(s, c, i) ==
  IF i > Len(s) THEN 0
  ELSE IF CharAt(s, i) = c THEN i
  ELSE IndexIn(s, c, i + 1)

\* the lower-case letter of each upper-case letter
LowerOf == [c \in Upper |-> CharAt(LowerChars, IndexIn(UpperChars, c, 1))]

LowerChar(c) == IF c \in Upper THEN LowerOf[c] ELSE c

RECURSIVE Lower(_)
\* ASCII lower-casing
Lower(s) == IF s = "" THEN "" ELSE LowerChar(Head(s)) \o Lower(Tail(s))

RECURSIVE FirstOf(_, _, _)
\* position of the first character of s, at or after i, that is in the set;
\* Len(s) + 1 if there is none
FirstOf(s, set, i) ==
  IF i > Len(s) THEN Len(s) + 1
  ELSE IF CharAt(s, i) \in set THEN i
  ELSE FirstOf(s, set, i + 1)

RECURSIVE FirstNotOf(_, _, _)
FirstNotOf(s, set, i) ==
  IF i > Len(s) THEN Len(s) + 1
  ELSE IF CharAt(s, i) \notin set THEN i
  ELSE FirstNotOf(s, set, i + 1)

AllIn(s, set) == FirstNotOf(s, set, 1) = Len(s) + 1

(***************************************************************************)
(* new URL(str): the WHATWG parser without a base URL, for input strings   *)
(* made of letters, digits and the characters : / ? # . - _ = ( ) ,        *)
(* (no user info, no percent-escapes, no dot segments, no white space).    *)
(***************************************************************************)
SpecialSchemes == {"http", "https", "ws", "wss", "ftp", "file"}

DefaultPort(scheme) ==
  CASE scheme = "http"  -> "80"
    [] scheme = "https" -> "443"
    [] scheme = "ws"    -> "80"
    [] scheme = "wss"   -> "443"
    [] scheme = "ftp"   -> "21"
    [] OTHER            -> ""

\* characters of the input alphabet a host name may hold (none of them is a
\* forbidden host code point)
HostChars == Letters \cup Upper \cup Digits \cup CharsOf(".-_=(),")

SchemeChars == Letters \cup Digits \cup CharsOf("+-.")

ParseFailure == [ok |-> FALSE, protocol |-> "", host |-> "", pathname |-> ""]

\* the part of a special URL after "scheme:" : slashes are skipped, the
\* authority runs to the next / ? or #, the path to the next ? or #
ParseSpecial(scheme, rest) ==
  LET a     == FirstNotOf(rest, {"/"}, 1)
      b     == FirstOf(rest, {"/", "?", "#"}, a)
      auth  == SubSeq(rest, a, b - 1)
      colon == IndexIn(auth, ":", 1)
      name  == IF colon = 0 THEN auth ELSE SubSeq(auth, 1, colon - 1)
      port  == IF colon = 0 THEN "" ELSE SubSeq(auth, colon + 1, Len(auth))
      c     == FirstOf(rest, {"?", "#"}, b)
      path  == SubSeq(rest, b, c - 1)
  IN  IF name = "" \/ ~AllIn(name, HostChars) \/ ~AllIn(port, Digits)
      THEN ParseFailure
      ELSE [ok       |-> TRUE,
            protocol |-> scheme \o ":",
            host     |-> IF port = "" \/ port = DefaultPort(scheme)
                         THEN Lower(name)
                         ELSE Lower(name) \o ":" \o port,
            pathname |-> IF path = "" THEN "/" ELSE path]

ParseURL(str) ==
  LET colon  == IndexIn(str, ":", 1)
      scheme == Lower(SubSeq(str, 1, colon - 1))
      rest   == SubSeq(str, colon + 1, Len(str))
  IN  IF colon < 2
         \/ CharAt(scheme, 1) \notin Letters
         \/ ~AllIn(scheme, SchemeChars)
      THEN ParseFailure
      ELSE IF scheme \in SpecialSchemes \ {"file"}
      THEN ParseSpecial(scheme, rest)
      ELSE [ok       |-> TRUE,
            protocol |-> scheme \o ":",
            host     |-> "",
            pathname |-> SubSeq(rest, 1, FirstOf(rest, {"?", "#"}, 1) - 1)]

\* validateHttpUrl(str): str may be any JavaScript value; new URL converts
\* it to a string first, and a parse failure is the caught exception
validateHttpUrl(v) ==
  LET u == ParseURL(StringOf(v))
  IN  u.ok /\ (u.protocol = "http:" \/ u.protocol = "https:")

(***************************************************************************)
(* Program constants and the inputs the requests are drawn from            *)
(***************************************************************************)
fallbackToken == "changeme-REPLACE_THIS"

\* the shortest newToken /api/change-admin-token accepts
MinTokenLength == 16

\* header.slice(7): the length of "Bearer "
BearerLength == 7

\* a value of the ADMIN_TOKEN environment variable
EnvToken == "env-token-0123456789"

\* process.env.ADMIN_TOKEN: absent, empty or set
EnvValues == {Undefined, Str(""), Str(EnvToken)}

\* a newToken of exactly MinTokenLength characters
TokenA == "0123456789abcdef"

\* a newToken that begins with "Bearer ": the fallback token behind it
TokenB == "Bearer " \o fallbackToken

\* req.body.newToken: absent, one character short, accepted (the fallback
\* token among them), not a string
NewTokenValues ==
  { Undefined, Str("0123456789abcde"), Str(TokenA), Str(TokenB),
    Str(fallbackToken), Num(16), Arr([i \in 1..16 |-> "x"]) }

\* req.body.target
TargetValues ==
  { Undefined, Str("example.com"), Str("ftp://example.com"),
    Str("https://example.com"), Str("https://example.com/api/"),
    Str("HTTP://Example.com:8080/v1?k=1") }

\* the x-admin-token and authorization headers of a request
Hdr(x, a) == [x |-> x, a |-> a]

\* a token that is never the admin token: the fallback token behind a
\* lower-case "bearer "
WrongToken == "bearer " \o fallbackToken

HeaderValues ==
  { Hdr(x, Undefined) :
      x \in { Undefined, Str(""), Str(WrongToken),
              Str(fallbackToken), Str(EnvToken), Str(TokenA), Str(TokenB),
              Str("Bearer " \o TokenB) } }
  \cup { Hdr(Undefined, Str("Bearer " \o fallbackToken)),
         Hdr(Str(""), Str("Bearer " \o fallbackToken)),
         Hdr(Str(WrongToken), Str("Bearer " \o fallbackToken)),
         Hdr(Str(fallbackToken), Str(WrongToken)) }

Methods == {"GET", "POST"}

\* req.originalUrl
Urls ==
  { "/api/info", "/api/config", "/api/status", "/api/change-admin-token",
    "/api/setup", "/p", "/p/", "/p/foo", "/p/foo/bar", "/p/foo?x=1", "/p?x=1", "/P/foo",
    "/px", "/nope" }

(***************************************************************************)
(* State                                                                   *)
(***************************************************************************)
VARIABLES
  variant,      \* which build runs: "fallback", "degraded" or "setup"
  env,          \* process.env.ADMIN_TOKEN once .env is loaded
  ADMIN_TOKEN,  \* the current admin token: a string, or null
  ADMIN_MODE,   \* Boolean(ADMIN_TOKEN) as computed at start-up
  config,       \* the in-memory configuration, [target |-> ...]
  inflight,     \* the relays in progress that are followed to their end,
                \* one per slot; a specification follows as many relays at
                \* a time as its initial state has slots
  oldToken,     \* history: ADMIN_TOKEN before the last accepted change
                \* since start-up, Null if there was none
  lastSet,      \* history: the target of the last POST /api/config answered
                \* 200 since start-up, Null if there was none
  last          \* history: the last request handled and its response

vars ==
  <<variant, env, ADMIN_TOKEN, ADMIN_MODE, config, inflight, oldToken, lastSet,
    last>>

(***************************************************************************)
(* Express routing                                                         *)
(***************************************************************************)
\* req.path: the URL without its query string
PathOf(url) == SubSeq(url, 1, FirstOf(url, {"?"}, 1) - 1)

\* the path each request URL is matched by, computed once: routing is
\* case-insensitive (Express default)
MatchPath == [url \in Urls |-> Lower(PathOf(url))]

\* app.get(route) / app.post(route): not strict about one trailing slash
\* (Express default)
RouteMatches(route, url) ==
  LET p == MatchPath[url]
  IN  p = route \/ p = route \o "/"

\* app.use(mount, ...): the mount path matches as a prefix that ends at a
\* segment boundary
MountMatches(mount, url) ==
  LET p == MatchPath[url]
  IN  p = mount \/ StartsWith(p, mount \o "/")

IsInfo(method, url) == method = "GET" /\ RouteMatches("/api/info", url)

IsChangeAdminToken(method, url) ==
  /\ variant = "fallback"
  /\ method = "POST"
  /\ RouteMatches("/api/change-admin-token", url)

\* POST /api/setup, a route of the build the README describes
IsSetup(method, url) ==
  /\ variant = "setup"
  /\ method = "POST"
  /\ RouteMatches("/api/setup", url)

IsConfig(method, url) == method = "POST" /\ RouteMatches("/api/config", url)

IsStatus(method, url) == method = "GET" /\ RouteMatches("/api/status", url)

IsForward(method, url) ==
  /\ ~IsInfo(method, url)
  /\ ~IsChangeAdminToken(method, url)
  /\ ~IsSetup(method, url)
  /\ ~IsConfig(method, url)
  /\ ~IsStatus(method, url)
  /\ MountMatches("/p", url)

(***************************************************************************)
(* Responses                                                               *)
(***************************************************************************)
\* res.status(status).json({ error: error, ... })
ErrorResponse(status, error) ==
  [status |-> status, error |-> error, body |-> [error |-> error]]

\* res.json(body)
OkResponse(body) == [status |-> 200, error |-> "", body |-> body]

\* no response written by the handler (the relay answers later)
NoResponse == [status |-> 0, error |-> "", body |-> [none |-> TRUE]]

(***************************************************************************)
(* requireAdminToken                                                       *)
(***************************************************************************)
\* the test the builds start requireAdminToken and the /p handler with:
\* !ADMIN_TOKEN in server.js, !ADMIN_MODE in the degraded build; the build
\* with /api/setup activates a token without a restart, so it tests the
\* token
AdminInactive ==
  IF variant = "degraded" THEN ~ADMIN_MODE ELSE ~Truthy(ADMIN_TOKEN)

\* HeaderOf with the authorization header read first
HeaderOf_AuthorizationFirst(hdr) == Or(hdr.a, hdr.x)

\* req.get('x-admin-token') || req.get('authorization')
HeaderOf(hdr) == Or(hdr.x, hdr.a)

\* header.startsWith('Bearer ') ? header.slice(7) : header
StripBearer(header) ==
  IF StartsWith(header, "Bearer ") THEN Slice(header, BearerLength) ELSE header

\* requireAdminToken with the missing-header test made before the test of
\* the admin token
requireAdminToken_HeaderFirst(hdr) ==
  LET header == HeaderOf(hdr)
  IN  IF ~Truthy(header)
      THEN [res |-> ErrorResponse(401, "missing_token"), next |-> FALSE]
      ELSE IF AdminInactive
      THEN [res |-> ErrorResponse(503, "admin_token_not_set"), next |-> FALSE]
      ELSE IF Str(StripBearer(header.s)) # ADMIN_TOKEN
      THEN [res |-> ErrorResponse(403, "invalid_token"), next |-> FALSE]
      ELSE [res |-> NoResponse, next |-> TRUE]

\* requireAdminToken without the `return' in front of the 403 response:
\* next() is called after the response is written
requireAdminToken_NoReturn(hdr) ==
  LET header == HeaderOf(hdr)
  IN  IF AdminInactive
      THEN [res |-> ErrorResponse(503, "admin_token_not_set"), next |-> FALSE]
      ELSE IF ~Truthy(header)
      THEN [res |-> ErrorResponse(401, "missing_token"), next |-> FALSE]
      ELSE IF Str(StripBearer(header.s)) # ADMIN_TOKEN
      THEN [res |-> ErrorResponse(403, "invalid_token"), next |-> TRUE]
      ELSE [res |-> NoResponse, next |-> TRUE]

\* requireAdminToken comparing with the admin token the process started
\* with
requireAdminToken_StartToken(hdr) ==
  LET header == HeaderOf(hdr)
      start  == IF variant = "fallback" THEN Or(env, Str(fallbackToken))
                ELSE Or(env, Null)
  IN  IF AdminInactive
      THEN [res |-> ErrorResponse(503, "admin_token_not_set"), next |-> FALSE]
      ELSE IF ~Truthy(header)
      THEN [res |-> ErrorResponse(401, "missing_token"), next |-> FALSE]
      ELSE IF Str(StripBearer(header.s)) # start
      THEN [res |-> ErrorResponse(403, "invalid_token"), next |-> FALSE]
      ELSE [res |-> NoResponse, next |-> TRUE]

\* The middleware: the response it writes (status 0 if none) and whether it
\* calls next()
requireAdminToken(hdr) ==
  LET header == HeaderOf(hdr)
  IN  IF AdminInactive
      THEN [res |-> ErrorResponse(503, "admin_token_not_set"), next |-> FALSE]
      ELSE IF ~Truthy(header)
      THEN [res |-> ErrorResponse(401, "missing_token"), next |-> FALSE]
      ELSE IF Str(StripBearer(header.s)) # ADMIN_TOKEN
      THEN [res |-> ErrorResponse(403, "invalid_token"), next |-> FALSE]
      ELSE [res |-> NoResponse, next |-> TRUE]

\* the response the client gets from a gated route: the first one written
Respond(gate, handlerRes) ==
  IF gate.res.status # 0 THEN gate.res ELSE handlerRes

\* The history record of a handled request: the route, the headers and the
\* body field or URL it came with, the response, the proxy target it was
\* relayed to ("" if it was not relayed), whether the route's handler ran,
\* and whether it repeats the POST /api/config accepted just before it
Record(op, hdr, arg, res, relay, ran) ==
  [op |-> op, hdr |-> hdr, arg |-> arg, status |-> res.status,
   error |-> res.error, body |-> res.body, relay |-> relay, ran |-> ran,
   again |-> /\ op = "config" /\ res.status = 200
             /\ last.op = "config" /\ last.status = 200 /\ last.arg = arg]

(***************************************************************************)
(* Relays in progress                                                      *)
(***************************************************************************)
\* the most relays a specification follows at a time
MaxInflight == 2

\* a slot that holds no relay
Idle == [t |-> "idle"]

\* so many slots, none of them in use
NoRelays(slots) == [i \in 1..slots |-> Idle]

FreeSlots == { i \in DOMAIN inflight : inflight[i] = Idle }

LowestFree == CHOOSE i \in FreeSlots : \A j \in FreeSlots : i <= j

\* proxy.web(req, res, { target: proxyTarget, ... }): the relay of the
\* request for url, begun while config.target was cfg; no response headers
\* have been sent to the client yet
NewRelay(url, cfg, proxyTarget) ==
  [t |-> "relay", url |-> url, cfg |-> cfg, target |-> proxyTarget,
   headersSent |-> FALSE]

(***************************************************************************)
(* Start-up                                                                *)
(***************************************************************************)
\* InitialToken without the fallback token
InitialToken_EnvOnly(v, e) == Or(e, Null)

\* process.env.ADMIN_TOKEN || fallbackToken   (server.js)
\* process.env.ADMIN_TOKEN || null            (the other builds)
InitialToken(v, e) ==
  IF v = "fallback" THEN Or(e, Str(fallbackToken)) ELSE Or(e, Null)

\* Boolean(ADMIN_TOKEN && ADMIN_TOKEN !== '') and Boolean(ADMIN_TOKEN)
InitialMode(tok) == Truthy(tok)

\* Started that keeps the admin token of the process that stopped
Started_KeepToken(v, e, op) ==
  /\ variant' = v
  /\ env' = e
  /\ ADMIN_TOKEN' = ADMIN_TOKEN
  /\ ADMIN_MODE' = InitialMode(ADMIN_TOKEN)
  /\ config' = [target |-> Null]
  /\ inflight' = NoRelays(Len(inflight))
  /\ oldToken' = Null
  /\ lastSet' = Null
  /\ last' = Record(op, Hdr(Undefined, Undefined),
                    IF oldToken # Null THEN ADMIN_TOKEN ELSE Null,
                    NoResponse, "", FALSE)

\* The module is loaded again.  The history record keeps, as its arg, the
\* token /api/change-admin-token had installed in the process that stopped
\* (null if it had installed none).
Started(v, e, op) ==
  /\ variant' = v
  /\ env' = e
  /\ ADMIN_TOKEN' = InitialToken(v, e)
  /\ ADMIN_MODE' = InitialMode(InitialToken(v, e))
  /\ config' = [target |-> Null]
  /\ inflight' = NoRelays(Len(inflight))
  /\ oldToken' = Null
  /\ lastSet' = Null
  /\ last' = Record(op, Hdr(Undefined, Undefined),
                    IF oldToken # Null THEN ADMIN_TOKEN ELSE Null,
                    NoResponse, "", FALSE)

\* the process has just started: one of the builds, in one of the
\* environments, with so many slots for relays
InitOver(variants, envs, slots) ==
  \E v \in variants, e \in envs :
    /\ variant = v
    /\ env = e
    /\ ADMIN_TOKEN = InitialToken(v, e)
    /\ ADMIN_MODE = InitialMode(InitialToken(v, e))
    /\ config = [target |-> Null]
    /\ inflight = NoRelays(slots)
    /\ oldToken = Null
    /\ lastSet = Null
    /\ last = [op |-> "start", hdr |-> Hdr(Undefined, Undefined),
               arg |-> Undefined, status |-> 0, error |-> "",
               body |-> NoResponse.body, relay |-> "", ran |-> FALSE,
               again |-> FALSE]

Init == InitOver({"fallback", "degraded", "setup"}, EnvValues, 0)

\* the process is stopped and started again in the same environment
Restart == Started(variant, env, "restart")

(***************************************************************************)
(* GET /api/info                                                           *)
(***************************************************************************)
InfoBody ==
  IF variant = "fallback"
  THEN [adminConfigured    |-> Truthy(env),
        usingFallbackToken |-> ~Truthy(env),
        configuredTarget   |-> Truthy(config.target),
        target             |-> Or(config.target, Null),
        instructions       |-> IF ~Truthy(env) THEN Str("ADMIN_INSTRUCTIONS") ELSE Null]
  ELSE [adminConfigured    |-> ~AdminInactive,
        configuredTarget   |-> Truthy(config.target),
        target             |-> Or(config.target, Null),
        instructions       |-> IF ~AdminInactive THEN Null
                               ELSE Str("ADMIN_INSTRUCTIONS")]

Info ==
  \E method \in Methods, url \in Urls :
    /\ IsInfo(method, url)
    /\ \E hdr \in HeaderValues :
         last' = Record("info", hdr, Undefined, OkResponse(InfoBody), "", TRUE)
    /\ UNCHANGED <<variant, env, ADMIN_TOKEN, ADMIN_MODE, config, inflight,
                   oldToken, lastSet>>

(***************************************************************************)
(* POST /api/change-admin-token   (server.js only)                         *)
(***************************************************************************)
\* newToken.length < n; the length of a number is undefined and compares
\* false
LengthLess(v, n) ==
  CASE v.t = "string" -> Len(v.s) < n
    [] v.t = "array"  -> Len(v.elems) < n
    [] OTHER          -> FALSE

\* InvalidNewToken without the test of the length
InvalidNewToken_NoLength(newToken) ==
  ~Truthy(newToken) \/ TypeOf(newToken) # "string"

\* !newToken || typeof newToken !== 'string' || newToken.length < 16
InvalidNewToken(newToken) ==
  \/ ~Truthy(newToken)
  \/ TypeOf(newToken) # "string"
  \/ LengthLess(newToken, MinTokenLength)

ChangeAdminTokenResponse(newToken) ==
  IF InvalidNewToken(newToken)
  THEN ErrorResponse(400, "invalid_new_token")
  ELSE OkResponse([message |-> "admin_token_changed_in_memory"])

\* the handler's response to each request body, computed once
ChangeAdminTokenResponses ==
  [newToken \in NewTokenValues |-> ChangeAdminTokenResponse(newToken)]

\* the handler, for requests with these bodies and headers
ChangeAdminTokenOver(newTokens, headers) ==
  \E method \in Methods, url \in Urls :
    /\ IsChangeAdminToken(method, url)
    /\ \E newToken \in newTokens, hdr \in headers :
       LET gate == requireAdminToken(hdr)
           res  == ChangeAdminTokenResponses[newToken]
           set  == gate.next /\ res.status = 200
       IN  /\ ADMIN_TOKEN' = IF set THEN newToken ELSE ADMIN_TOKEN
           /\ oldToken' = IF set THEN ADMIN_TOKEN ELSE oldToken
           /\ last' = Record("change", hdr, newToken, Respond(gate, res), "",
                             gate.next)
    /\ UNCHANGED <<variant, env, ADMIN_MODE, config, inflight, lastSet>>

ChangeAdminToken == ChangeAdminTokenOver(NewTokenValues, HeaderValues)

(***************************************************************************)
(* POST /api/setup   (the build the README describes)                      *)
(***************************************************************************)
\* The route is disabled once a token is active; while none is, it takes the
\* tokens the credential store's replace() takes (strings of 16 characters
\* or more).
SetupResponse(newToken) ==
  IF ~AdminInactive THEN ErrorResponse(404, "not_found")
  ELSE IF InvalidNewToken(newToken)
  THEN ErrorResponse(400, "invalid_new_token")
  ELSE OkResponse([message |-> "admin_token_set"])

\* the token is activated at once and written to .env, from where the next
\* start-up reads it
Setup ==
  \E method \in Methods, url \in Urls :
    /\ IsSetup(method, url)
    /\ \E newToken \in NewTokenValues :
       LET res == SetupResponse(newToken)
           set == res.status = 200
       IN  /\ ADMIN_TOKEN' = IF set THEN newToken ELSE ADMIN_TOKEN
           /\ env' = IF set THEN newToken ELSE env
           /\ last' = Record("setup", Hdr(Undefined, Undefined), newToken, res,
                             "", TRUE)
    /\ UNCHANGED <<variant, ADMIN_MODE, config, inflight, oldToken, lastSet>>

(***************************************************************************)
(* POST /api/config                                                        *)
(***************************************************************************)
\* InvalidTarget without the call of validateHttpUrl
InvalidTarget_TruthyOnly(target) == ~Truthy(target)

\* !target || !validateHttpUrl(target)
InvalidTarget(target) == ~Truthy(target) \/ ~validateHttpUrl(target)

ConfigResponse(target) ==
  IF InvalidTarget(target)
  THEN ErrorResponse(400, "invalid_target")
  ELSE OkResponse([message |-> "target set", proxyPath |-> "/p/",
                   target |-> target])

\* SetTarget that keeps a target that is already configured
SetTarget_FirstWins(cfg, target) ==
  IF Truthy(cfg.target) THEN cfg ELSE [cfg EXCEPT !.target = target]

\* SetTarget that takes a target equal to the configured one as a request to
\* clear it
SetTarget_Toggle(cfg, target) ==
  IF cfg.target = target THEN [cfg EXCEPT !.target = Null]
  ELSE [cfg EXCEPT !.target = target]

\* config.target = target
SetTarget(cfg, target) == [cfg EXCEPT !.target = target]

\* the handler's response to each request body, computed once
ConfigResponses == [target \in TargetValues |-> ConfigResponse(target)]

\* the handler, for requests with these bodies and headers
ConfigOver(targets, headers) ==
  \E method \in Methods, url \in Urls :
    /\ IsConfig(method, url)
    /\ \E target \in targets, hdr \in headers :
       LET gate == requireAdminToken(hdr)
           res  == ConfigResponses[target]
           set  == gate.next /\ res.status = 200
       IN  /\ config' = IF set THEN SetTarget(config, target) ELSE config
           /\ lastSet' = IF Respond(gate, res).status = 200 THEN target
                         ELSE lastSet
           /\ last' = Record("config", hdr, target, Respond(gate, res), "",
                             gate.next)
    /\ UNCHANGED <<variant, env, ADMIN_TOKEN, ADMIN_MODE, inflight, oldToken>>

Config == ConfigOver(TargetValues, HeaderValues)

(***************************************************************************)
(* GET /api/status                                                         *)
(***************************************************************************)
StatusBody ==
  [configured |-> Truthy(config.target), target |-> Or(config.target, Null)]

Status ==
  \E method \in Methods, url \in Urls :
    /\ IsStatus(method, url)
    /\ \E hdr \in HeaderValues :
       LET gate == requireAdminToken(hdr)
       IN  last' = Record("status", hdr, Undefined,
                          Respond(gate, OkResponse(StatusBody)), "", gate.next)
    /\ UNCHANGED <<variant, env, ADMIN_TOKEN, ADMIN_MODE, config, inflight,
                   oldToken, lastSet>>

(***************************************************************************)
(* app.use('/p', ...): the forwarding handler                              *)
(***************************************************************************)
\* ForwardCheck with the two tests in the other order
ForwardCheck_TargetFirst ==
  IF ~Truthy(config.target) THEN ErrorResponse(404, "no_target_configured")
  ELSE IF AdminInactive THEN ErrorResponse(503, "admin_token_not_set")
  ELSE NoResponse

\* the checks the handler makes before it relays
ForwardCheck ==
  IF AdminInactive THEN ErrorResponse(503, "admin_token_not_set")
  ELSE IF ~Truthy(config.target) THEN ErrorResponse(404, "no_target_configured")
  ELSE NoResponse

\* req.originalUrl.replace(/^\/p/, '') || '/'
OriginalPath(url) ==
  LET r == IF StartsWith(url, "/p") THEN Slice(url, 2) ELSE url
  IN  IF r = "" THEN "/" ELSE r

\* pathname.replace(/\/$/, '')
StripTrailingSlash(pathname) ==
  IF EndsWith(pathname, "/") THEN SubSeq(pathname, 1, Len(pathname) - 1)
  ELSE pathname

\* the target option handed to proxy.web
ProxyTarget(target, url) ==
  LET targetUrl == ParseURL(StringOf(target))
      base      == IF targetUrl.pathname # "" /\ targetUrl.pathname # "/"
                   THEN StripTrailingSlash(targetUrl.pathname)
                   ELSE ""
      combinedPath == base \o OriginalPath(url)
  IN  targetUrl.protocol \o "//" \o targetUrl.host \o combinedPath

\* the proxy target of each request URL under each target that
\* validateHttpUrl accepts, computed once
ProxyTargets ==
  [target \in { t \in TargetValues : validateHttpUrl(t) } |->
     [url \in Urls |-> ProxyTarget(target, url)]]

\* the handler, for requests with these URLs; the relay it starts is
\* followed if a slot is free
ForwardOver(urls) ==
  \E method \in Methods, url \in urls :
    /\ IsForward(method, url)
    /\ LET res == ForwardCheck
           proxyTarget == IF res.status # 0 THEN ""
                          ELSE IF config.target \in DOMAIN ProxyTargets
                          THEN ProxyTargets[config.target][url]
                          ELSE ProxyTarget(config.target, url)
       IN  /\ last' = Record("forward", Hdr(Undefined, Undefined), Str(url),
                             res, proxyTarget, TRUE)
           /\ inflight' =
                IF res.status = 0 /\ FreeSlots # {}
                THEN [inflight EXCEPT
                        ![LowestFree] = NewRelay(url, config.target, proxyTarget)]
                ELSE inflight
    /\ UNCHANGED <<variant, env, ADMIN_TOKEN, ADMIN_MODE, config, oldToken, lastSet>>

Forward == ForwardOver(Urls)

(***************************************************************************)
(* The relay: http-proxy passes the upstream's response to the client, or  *)
(* emits 'error'                                                           *)
(***************************************************************************)
\* err.message of the errors http-proxy reports
ErrorMessages == {"connect ECONNREFUSED", "socket hang up"}

\* RelayDestination read from the configuration of the moment
RelayDestination_Live(r) ==
  IF config.target \in DOMAIN ProxyTargets
  THEN ProxyTargets[config.target][r.url]
  ELSE r.target

\* where the relay's upstream request goes: the target option proxy.web was
\* called with, a string
RelayDestination(r) == r.target

\* the upstream's status line and headers arrive for the relay in slot i
\* and are written to the client
UpstreamResponseOf(i) ==
  /\ inflight[i] # Idle
  /\ ~inflight[i].headersSent
  /\ inflight' = [inflight EXCEPT ![i].headersSent = TRUE]
  /\ last' = Record("upstream_response", Hdr(Undefined, Undefined),
                    inflight[i], OkResponse([upstream |-> TRUE]),
                    RelayDestination(inflight[i]), TRUE)
  /\ UNCHANGED <<variant, env, ADMIN_TOKEN, ADMIN_MODE, config, oldToken, lastSet>>

UpstreamResponse == \E i \in DOMAIN inflight : UpstreamResponseOf(i)

\* the upstream's response to the relay in slot i ends and so does the
\* client's
UpstreamEndOf(i) ==
  /\ inflight[i] # Idle
  /\ inflight[i].headersSent
  /\ inflight' = [inflight EXCEPT ![i] = Idle]
  /\ last' = Record("upstream_end", Hdr(Undefined, Undefined),
                    inflight[i], OkResponse([upstream |-> TRUE]),
                    RelayDestination(inflight[i]), TRUE)
  /\ UNCHANGED <<variant, env, ADMIN_TOKEN, ADMIN_MODE, config, oldToken, lastSet>>

UpstreamEnd == \E i \in DOMAIN inflight : UpstreamEndOf(i)

\* ProxyErrorResponse without the call of res.writeHead
ProxyErrorResponse_NoHead(headersSent, message) ==
  [status |-> 200,
   error  |-> "proxy_error",
   body   |-> [error |-> "proxy_error", message |-> message]]

\* The 'error' handler: res.writeHead(502, ...) unless the headers were
\* sent (the status is then the upstream's), and res.end(JSON.stringify({
\* error: 'proxy_error', message: err && err.message })) in either case.
\* The result is what the handler has made of the client's response.
ProxyErrorResponse(headersSent, message) ==
  [status |-> IF ~headersSent THEN 502 ELSE 200,
   error  |-> "proxy_error",
   body   |-> [error |-> "proxy_error", message |-> message]]

\* proxy.on('error', ...): the relay in slot i fails, before or after the
\* upstream's headers were passed on
ProxyErrorOf(i) ==
  \E message \in ErrorMessages :
    /\ inflight[i] # Idle
    /\ inflight' = [inflight EXCEPT ![i] = Idle]
    /\ last' = Record("proxy_error", Hdr(Undefined, Undefined), inflight[i],
                      ProxyErrorResponse(inflight[i].headersSent, message),
                      RelayDestination(inflight[i]), TRUE)
    /\ UNCHANGED <<variant, env, ADMIN_TOKEN, ADMIN_MODE, config, oldToken, lastSet>>

ProxyError == \E i \in DOMAIN inflight : ProxyErrorOf(i)

(***************************************************************************)
(* Fallback route                                                          *)
(***************************************************************************)
NotFound ==
  \E method \in Methods, url \in Urls :
    /\ ~IsInfo(method, url)
    /\ ~IsChangeAdminToken(method, url)
    /\ ~IsSetup(method, url)
    /\ ~IsConfig(method, url)
    /\ ~IsStatus(method, url)
    /\ ~MountMatches("/p", url)
    /\ last' = Record("notfound", Hdr(Undefined, Undefined), Str(url),
                      ErrorResponse(404, "not_found"), "", TRUE)
    /\ UNCHANGED <<variant, env, ADMIN_TOKEN, ADMIN_MODE, config, inflight,
                   oldToken, lastSet>>

Next ==
  \/ Restart
  \/ Info
  \/ ChangeAdminToken
  \/ Setup
  \/ Config
  \/ Status
  \/ Forward
  \/ NotFound

Spec == Init /\ [][Next]_vars

(***************************************************************************)
(* The relays of server.js followed to their end, with the requests drawn  *)
(* from smaller sets                                                       *)
(***************************************************************************)
RelayHeaders ==
  { Hdr(Undefined, Undefined), Hdr(Str(fallbackToken), Undefined),
    Hdr(Str(TokenA), Undefined) }

RelayNewTokens == { Undefined, Str(TokenA) }

RelayTargets ==
  { Undefined, Str("https://example.com"), Str("https://example.com/api/") }

RelayUrls == { "/p/foo" }

InitRelay == InitOver({"fallback"}, {Undefined}, MaxInflight)

RelayChangeAdminToken == ChangeAdminTokenOver(RelayNewTokens, RelayHeaders)

RelayConfig == ConfigOver(RelayTargets, RelayHeaders)

RelayForward == ForwardOver(RelayUrls)

NextRelay ==
  \/ Restart
  \/ RelayChangeAdminToken
  \/ RelayConfig
  \/ RelayForward
  \/ UpstreamResponse
  \/ UpstreamEnd
  \/ ProxyError

SpecRelay == InitRelay /\ [][NextRelay]_vars

(***************************************************************************)
(* Properties                                                              *)
(***************************************************************************)
\* the routes behind requireAdminToken
GatedOps == {"change", "config", "status"}

\* the statuses requireAdminToken answers with
GateStatuses == {503, 401, 403}

\* the handler behind the gate ran and the gate wrote no response
Authorized(rec) == rec.ran /\ rec.status \notin GateStatuses

\* a presented header value with an optional leading "Bearer " taken off
WithoutBearer(v) ==
  IF v.t = "string" /\ Len(v.s) >= 7 /\ SubSeq(v.s, 1, 7) = "Bearer "
  THEN Str(SubSeq(v.s, 8, Len(v.s)))
  ELSE v

Denied(rec, status, error) ==
  rec.status = status /\ rec.error = error /\ ~rec.ran

\* C1 as stated: on every gated route the gate answers 503
\* admin_token_not_set when the credential is inactive, whatever the headers;
\* otherwise 401 missing_token when no token header is present; otherwise 403
\* invalid_token when the presented token, "Bearer " stripped, differs from
\* the credential; otherwise the handler runs.  No handler runs after a 503,
\* 401 or 403.
C1_GateOrderAsStated ==
  [][ last'.op \in GatedOps =>
        LET h         == last'.hdr
            presented == IF h.x # Undefined THEN h.x ELSE h.a
        IN  /\ IF AdminInactive
               THEN Denied(last', 503, "admin_token_not_set")
               ELSE IF h.x = Undefined /\ h.a = Undefined
               THEN Denied(last', 401, "missing_token")
               ELSE IF WithoutBearer(presented) # ADMIN_TOKEN
               THEN Denied(last', 403, "invalid_token")
               ELSE Authorized(last')
            /\ (last'.status \in GateStatuses => ~last'.ran) ]_vars

\* C1 amended: as C1, with the 401 missing_token answer given when no
\* non-empty token header is present (x-admin-token and authorization are
\* each absent or empty), and the presented token being the first non-empty
\* one of x-admin-token and authorization.
C1_GateOrder ==
  [][ last'.op \in GatedOps =>
        LET h         == last'.hdr
            empty(v)  == v = Undefined \/ v = Str("")
            presented == IF ~empty(h.x) THEN h.x ELSE h.a
        IN  /\ IF AdminInactive
               THEN Denied(last', 503, "admin_token_not_set")
               ELSE IF empty(h.x) /\ empty(h.a)
               THEN Denied(last', 401, "missing_token")
               ELSE IF WithoutBearer(presented) # ADMIN_TOKEN
               THEN Denied(last', 403, "invalid_token")
               ELSE Authorized(last')
            /\ (last'.status \in GateStatuses => ~last'.ran) ]_vars

\* an active credential and an empty x-admin-token header answered 401
C1_Witness ==
  /\ last.op \in GatedOps
  /\ ~AdminInactive
  /\ last.hdr = Hdr(Str(""), Undefined)
  /\ last.status = 401

\* the one token header of a request is exactly the string s
TokenHeaderIs(h, s) ==
  \/ h = Hdr(Str(s), Undefined)
  \/ h = Hdr(Undefined, Str(s))

\* C2 as stated: whenever the credential is active with value c, a request
\* whose token header is exactly c and a request whose token header is
\* "Bearer " followed by c are both authorized.
C2_TokenAndBearerAuthorized ==
  [][ /\ last'.op \in GatedOps
      /\ ~AdminInactive
      /\ \/ TokenHeaderIs(last'.hdr, ADMIN_TOKEN.s)
         \/ TokenHeaderIs(last'.hdr, "Bearer " \o ADMIN_TOKEN.s)
      => Authorized(last') ]_vars

\* C3 as stated: after an accepted change-admin-token, until the next one or
\* a restart, every attempt that presents the old credential value is
\* answered 403 and every attempt that presents the new value is authorized
\* (stated for a new value that differs from the old one).
C3_OldRejectedNewAccepted ==
  [][ last'.op \in GatedOps /\ oldToken # Null /\ oldToken # ADMIN_TOKEN =>
        /\ TokenHeaderIs(last'.hdr, oldToken.s) =>
             Denied(last', 403, "invalid_token")
        /\ TokenHeaderIs(last'.hdr, ADMIN_TOKEN.s) => Authorized(last') ]_vars

\* C4: the configured target is null or a value validateHttpUrl accepts, and
\* it is null when the process has just started.
C4_TargetValid ==
  /\ config.target = Null \/ validateHttpUrl(config.target)
  /\ last.op \in {"start", "restart"} => config.target = Null

\* a target with an upper-case scheme and host, a port and a query is set
C4_Witness ==
  /\ last.op = "config"
  /\ last.status = 200
  /\ config.target = Str("HTTP://Example.com:8080/v1?k=1")

\* C5: a request the gate answers with 503, 401 or 403, a GET /api/info, a
\* GET /api/status, a /p request and an unmatched request leave the target
\* and the credential as they were.
C5_OnlyAuthorizedAdminWrites ==
  [][ \/ last'.op \in GatedOps /\ last'.status \in GateStatuses
      \/ last'.op \in {"info", "status", "forward", "notfound"}
      => /\ config' = config
         /\ ADMIN_TOKEN' = ADMIN_TOKEN
         /\ ADMIN_MODE' = ADMIN_MODE ]_vars

\* a POST /api/config with a wrong token and an acceptable target, answered
\* 403 while another target is configured
C5_Witness ==
  /\ last.op = "config"
  /\ last.status = 403
  /\ validateHttpUrl(last.arg)
  /\ Truthy(config.target)
  /\ config.target # last.arg

\* C6: an authorized POST /api/config whose target is missing or fails the
\* URL validator is answered 400 invalid_target and leaves the configured
\* target as it was; an authorized POST /api/change-admin-token whose
\* newToken is missing, not a string or shorter than 16 characters is
\* answered 400 invalid_new_token and leaves the credential as it was.
C6_ValidationFailuresKeepState ==
  [][ /\ ( /\ last'.op = "config"
           /\ last'.ran
           /\ \/ last'.arg = Undefined
              \/ ~validateHttpUrl(last'.arg)
           => /\ last'.status = 400
              /\ last'.error = "invalid_target"
              /\ config' = config )
      /\ ( /\ last'.op = "change"
           /\ last'.ran
           /\ \/ last'.arg = Undefined
              \/ last'.arg.t # "string"
              \/ Len(last'.arg.s) < 16
           => /\ last'.status = 400
              /\ last'.error = "invalid_new_token"
              /\ ADMIN_TOKEN' = ADMIN_TOKEN
              /\ WithoutBearer(IF Truthy(last'.hdr.x) THEN last'.hdr.x
                               ELSE last'.hdr.a) = ADMIN_TOKEN' ) ]_vars

\* an authorized POST /api/config with a target of another scheme, answered
\* 400 while a target is configured
C6_Witness ==
  /\ last.op = "config"
  /\ last.ran
  /\ last.arg = Str("ftp://example.com")
  /\ last.status = 400
  /\ Truthy(config.target)

\* C7: a /p request while the credential is inactive is answered 503
\* admin_token_not_set, also when no target is configured; a /p request while
\* the credential is active and the target is unset is answered 404
\* no_target_configured; neither is relayed.
C7_ForwardPreconditions ==
  [][ last'.op = "forward" =>
        /\ AdminInactive =>
             /\ last'.status = 503
             /\ last'.error = "admin_token_not_set"
             /\ last'.relay = ""
        /\ ~AdminInactive /\ config.target = Null =>
             /\ last'.status = 404
             /\ last'.error = "no_target_configured"
             /\ last'.relay = "" ]_vars

\* a /p request answered 503 while no target is configured
C7_Witness ==
  /\ last.op = "forward"
  /\ last.status = 503
  /\ AdminInactive
  /\ config.target = Null

\* the URL C8 names for a target and an inbound URL: the target's scheme and
\* host, its path without a trailing slash unless it is the root, and the
\* inbound URL without the prefix it was routed by ("/" if nothing is left)
C8_Url(target, url) ==
  LET u    == ParseURL(StringOf(target))
      rest == SubSeq(url, 3, Len(url))
  IN  u.protocol \o "//" \o u.host
        \o (IF u.pathname = "/" THEN "" ELSE StripTrailingSlash(u.pathname))
        \o (IF rest = "" THEN "/" ELSE rest)

\* C8 as stated: every request the forwarding handler relays is relayed to
\* the target's scheme and host, then the target's path with a trailing slash
\* removed when it is not the root, then the inbound path and query with the
\* leading /p prefix removed ("/" when the remainder is empty).
C8_RelayUrl ==
  [][ last'.op = "forward" /\ last'.relay # "" =>
        last'.relay = C8_Url(config.target, last'.arg.s) ]_vars

\* C9: an authorized POST /api/config with a valid target u is answered 200
\* with proxyPath "/p/" and target u; from then until the next such request
\* or a restart every authorized GET /api/status reports configured = true
\* and target u, and every /p request is relayed against u.
C9_LastWriteWins ==
  [][ /\ ( /\ last'.op = "config"
           /\ last'.ran
           /\ last'.arg # Undefined
           /\ validateHttpUrl(last'.arg)
           => /\ last'.status = 200
              /\ last'.body.proxyPath = "/p/"
              /\ last'.body.target = last'.arg
              /\ lastSet' = last'.arg )
      /\ ( lastSet # Null /\ last'.op = "status" /\ Authorized(last') =>
             /\ last'.status = 200
             /\ last'.body = [configured |-> TRUE, target |-> lastSet] )
      /\ ( lastSet # Null /\ last'.op = "forward" =>
             /\ last'.status = 0
             /\ last'.relay = ProxyTarget(lastSet, last'.arg.s) ) ]_vars

\* a /p request relayed against the second target that was configured
C9_Witness ==
  /\ last.op = "forward"
  /\ last.arg = Str("/p/foo?x=1")
  /\ lastSet = Str("https://example.com/api/")
  /\ last.relay = "https://example.com/api/foo?x=1"

\* what the /p requests show of a configuration: the proxy targets
Relays(cfg) ==
  IF ~Truthy(cfg.target) THEN Null
  ELSE [url \in {"/p", "/p/foo", "/p/foo?x=1"} |-> ProxyTarget(cfg.target, url)]

\* C10: an authorized POST /api/config that repeats the target of the
\* accepted POST /api/config just before it leaves what GET /api/status,
\* GET /api/info and the /p requests show as it was.
C10_SetTargetIdempotent ==
  [][ last'.again =>
        /\ StatusBody' = StatusBody
        /\ InfoBody' = InfoBody
        /\ ForwardCheck' = ForwardCheck
        /\ Relays(config') = Relays(config) ]_vars

\* the same target has been set twice in a row
C10_Witness ==
  /\ last.again
  /\ config.target = Str("https://example.com/api/")

\* C11 as stated: GET /api/info is answered 200 whatever the headers, with
\* adminConfigured true exactly when the credential is active (exactly when
\* requireAdminToken would not answer 503) and instructions non-null exactly
\* when the credential is inactive.
C11_InfoTruthful ==
  [][ last'.op = "info" =>
        /\ last'.status = 200
        /\ last'.body.adminConfigured = ~AdminInactive
        /\ (last'.body.instructions # Null) = AdminInactive ]_vars

\* C12 as stated: POST /api/setup with a newToken, while the credential is
\* inactive, is answered 200 and makes that token the active credential at
\* once; the next gated request that presents the token is authorized; while
\* a credential is active POST /api/setup is not answered 200 and leaves the
\* credential as it was.
C12_SetupWhileInactive ==
  [][ /\ ( last'.op = "setup" =>
             /\ AdminInactive /\ ~InvalidNewToken(last'.arg) =>
                  /\ last'.status = 200
                  /\ ADMIN_TOKEN' = last'.arg
                  /\ ~AdminInactive'
             /\ ~AdminInactive =>
                  /\ last'.status # 200
                  /\ ADMIN_TOKEN' = ADMIN_TOKEN )
      /\ ( /\ last.op = "setup"
           /\ last.status = 200
           /\ last'.op \in GatedOps
           /\ TokenHeaderIs(last'.hdr, ADMIN_TOKEN.s)
           => Authorized(last') ) ]_vars

\* C13: in the degraded build started without ADMIN_TOKEN (absent or
\* empty) the credential is inactive and the target unset in every state,
\* and every gated request and every /p request is answered 503 and not
\* relayed.
C13_DegradedFailsClosed ==
  variant = "degraded" /\ ~Truthy(env) =>
    /\ AdminInactive
    /\ ADMIN_TOKEN = Null
    /\ config.target = Null
    /\ last.op \in GatedOps \cup {"forward"} =>
         /\ last.status = 503
         /\ last.error = "admin_token_not_set"
         /\ last.relay = ""
         /\ last.op \in GatedOps => ~last.ran

\* the degraded build started with an empty ADMIN_TOKEN has answered 503 to
\* a POST /api/config with a token header and an acceptable target
C13_Witness ==
  /\ variant = "degraded"
  /\ env = Str("")
  /\ last.op = "config"
  /\ last.hdr = Hdr(Str(EnvToken), Undefined)
  /\ validateHttpUrl(last.arg)
  /\ last.status = 503

\* the events of a relay
RelayEvents == {"upstream_response", "upstream_end", "proxy_error"}

\* C14 as stated: when a relay fails after the response headers were sent to
\* the client, the proxy writes nothing more to that response, no error body
\* and no status.
C14_NoWriteAfterHeaders ==
  [][ last'.op = "proxy_error" /\ last'.arg.headersSent =>
        /\ last'.error = ""
        /\ last'.body = NoResponse.body ]_vars

\* C15: when a relay fails before any response headers were sent, the client
\* gets status 502 with the body { error: proxy_error, message: the error's
\* message }; the relay is over with that one response and no relay is begun
\* in its place; target and credential stay as they were; and the server
\* goes on handling requests.
C15_ErrorBeforeResponse ==
  /\ [][ last'.op = "proxy_error" /\ ~last'.arg.headersSent =>
           /\ last'.status = 502
           /\ last'.error = "proxy_error"
           /\ last'.body.error = "proxy_error"
           /\ last'.body.message \in ErrorMessages
           /\ \E i \in DOMAIN inflight :
                /\ inflight[i] = last'.arg
                /\ inflight' = [inflight EXCEPT ![i] = Idle]
           /\ config' = config
           /\ ADMIN_TOKEN' = ADMIN_TOKEN
           /\ ADMIN_MODE' = ADMIN_MODE ]_vars
  /\ [](last.op = "proxy_error" =>
          ENABLED RelayConfig /\ ENABLED RelayForward)

\* a relay has failed before its headers were sent and was answered 502,
\* while another relay is in progress
C15_Witness ==
  /\ last.op = "proxy_error"
  /\ ~last.arg.headersSent
  /\ last.status = 502
  /\ last.body.message = "connect ECONNREFUSED"
  /\ \E i \in DOMAIN inflight : inflight[i] # Idle

\* C18: the /p handler fixes the outbound URL of a relay from the target
\* configured when it runs; the URL of a relay in progress stays as it is in
\* every step, a POST /api/config that changes the target among them, and
\* it is the URL the relay's upstream request has gone to; whatever relays
\* are in progress, each of them can go on by itself, and POST /api/config
\* and POST /api/change-admin-token are handled.
C18_TargetSnapshot ==
  /\ [][ /\ \A i \in DOMAIN inflight :
              ( inflight[i] # Idle /\ inflight'[i] # Idle =>
                  /\ inflight'[i].target = inflight[i].target
                  /\ inflight'[i].url = inflight[i].url )
         /\ \A i \in DOMAIN inflight :
              ( inflight[i] = Idle /\ inflight'[i] # Idle =>
                  /\ last'.op = "forward"
                  /\ inflight'[i].target
                       = ProxyTargets[config.target][inflight'[i].url]
                  /\ inflight'[i].target = last'.relay )
         /\ ( last'.op \in RelayEvents =>
                last'.relay = ProxyTargets[last'.arg.cfg][last'.arg.url] )
       ]_vars
  /\ [](\A i \in DOMAIN inflight :
          inflight[i] # Idle =>
            /\ ENABLED (UpstreamResponseOf(i) \/ UpstreamEndOf(i))
            /\ ENABLED RelayConfig
            /\ ENABLED RelayChangeAdminToken)

\* the response of a relay has ended after the target was changed, and the
\* relay had gone to the URL made from the target it began under
C18_Witness ==
  /\ last.op = "upstream_end"
  /\ last.arg.cfg = Str("https://example.com")
  /\ config.target = Str("https://example.com/api/")
  /\ last.relay = "https://example.com/foo"

\* C16 as stated: a restart, whatever requests came before it, leaves the
\* credential at the value start-up chooses (the ADMIN_TOKEN of the
\* environment if it is present and not empty, else the fallback token in
\* the build that has one, else none) and the target unset; and a gated
\* request, the first after the restart, that presents the token
\* change-admin-token had installed before the restart is not authorized
\* unless that token equals the value start-up chose.
C16_RestartRevertsAsStated ==
  [][ /\ ( last'.op = "restart" =>
             /\ ADMIN_TOKEN' = ( IF Truthy(env') THEN env'
                                 ELSE IF variant' = "fallback"
                                 THEN Str(fallbackToken)
                                 ELSE Null )
             /\ AdminInactive' = (ADMIN_TOKEN' = Null)
             /\ config'.target = Null )
      /\ ( /\ last.op = "restart"
           /\ last.arg # Null
           /\ last.arg # ADMIN_TOKEN
           /\ last'.op \in GatedOps
           /\ TokenHeaderIs(last'.hdr, last.arg.s)
           => ~Authorized(last') ) ]_vars

\* C16 amended: as C16, with the token installed before the restart not
\* authorized unless it equals the value start-up chose or is "Bearer "
\* followed by that value.
C16_RestartReverts ==
  [][ /\ ( last'.op = "restart" =>
             /\ ADMIN_TOKEN' = ( IF Truthy(env') THEN env'
                                 ELSE IF variant' = "fallback"
                                 THEN Str(fallbackToken)
                                 ELSE Null )
             /\ AdminInactive' = (ADMIN_TOKEN' = Null)
             /\ config'.target = Null )
      /\ ( /\ last.op = "restart"
           /\ last.arg # Null
           /\ last.arg # ADMIN_TOKEN
           /\ last.arg # Str("Bearer " \o ADMIN_TOKEN.s)
           /\ last'.op \in GatedOps
           /\ TokenHeaderIs(last'.hdr, last.arg.s)
           => ~Authorized(last') ) ]_vars

\* server.js, started with an empty ADMIN_TOKEN, has been restarted while a
\* token installed by change-admin-token was in force, and is back at the
\* fallback token with no target
C16_Witness ==
  /\ variant = "fallback"
  /\ env = Str("")
  /\ last.op = "restart"
  /\ last.arg = Str(TokenA)
  /\ ADMIN_TOKEN = Str(fallbackToken)
  /\ config.target = Null

\* the request presents the token s as its one token header, as it is or
\* behind "Bearer "
Presents(h, s) == TokenHeaderIs(h, s) \/ TokenHeaderIs(h, "Bearer " \o s)

C19_FallbackAlwaysActive ==
  variant = "fallback" =>
    /\ ADMIN_TOKEN.t = "string"
    /\ ADMIN_TOKEN.s # ""
    /\ ~AdminInactive
    /\ oldToken # Null => Len(ADMIN_TOKEN.s) >= MinTokenLength
    /\ last.status # 503
    /\ last.error # "admin_token_not_set"

\* server.js started with an empty ADMIN_TOKEN: a /p request answered 404
\* after the token was changed
C19_Witness ==
  /\ variant = "fallback"
  /\ env = Str("")
  /\ oldToken = Str(fallbackToken)
  /\ ADMIN_TOKEN = Str(TokenA)
  /\ last.op = "forward"
  /\ last.status = 404

\* C20: while the credential is active, a gated request with a non-empty
\* x-admin-token header is authorized exactly when that header, "Bearer "
\* stripped, equals the credential, whatever its authorization header, and
\* is answered 403 otherwise; a request whose x-admin-token is absent or
\* empty and whose authorization header is not is decided the same way by
\* the authorization header.
C20_TokenHeaderPrecedence ==
  [][ last'.op \in GatedOps /\ ~AdminInactive =>
        LET h      == last'.hdr
            has(v) == v # Undefined /\ v # Str("")
            used   == IF has(h.x) THEN h.x ELSE h.a
        IN  has(h.x) \/ has(h.a) =>
              IF WithoutBearer(used) = ADMIN_TOKEN
              THEN Authorized(last')
              ELSE Denied(last', 403, "invalid_token") ]_vars

\* a wrong x-admin-token beside the right token in the authorization header,
\* answered 403
C20_Witness ==
  /\ last.op \in GatedOps
  /\ ADMIN_TOKEN = Str(fallbackToken)
  /\ last.hdr = Hdr(Str(WrongToken), Str("Bearer " \o fallbackToken))
  /\ last.status = 403
====
